---- MODULE Spec2Model ----
(***************************************************************************)
(* Model of the singly linked list of src/linked-list/src/main.cpp.        *)
(*                                                                         *)
(* The heap is a finite pool of addresses; `nodes` maps every allocated    *)
(* address to the Node stored there.  Every member function of LinkedList  *)
(* is an operator over a list record (head, length, the heap and two       *)
(* allocation counters) that follows the C++ statement by statement.       *)
(* Dereferencing a pointer that is null or not allocated, releasing an     *)
(* address that is not allocated, or a loop that never ends, is undefined  *)
(* behaviour; the operators report it in the field `fault`.                *)
(***************************************************************************)
EXTENDS Integers, Sequences, FiniteSets, TLC

\* Size of the address pool: `new` fails to find memory beyond it.
MaxNodes == 3
\* Stored values are drawn from 1..MaxVal.
MaxVal == 2
\* Cap on the number of allocations over the life of the list.
MaxCreated == 4
\* Width of size_t in the model (the arithmetic on length and index wraps).
SizeBits == 16

Null == 0
Addr == 1..MaxNodes
Values == 1..MaxVal
Indices == 0..(MaxNodes + 1)
SizeMod == 2 ^ SizeBits

\* head, length : the data members of LinkedList
\* nodes        : the heap, allocated address -> Node
\* created, released : number of `new Node` and of `delete` executed so far
\* fault        : undefined behaviour has occurred
\* phase        : "alive" until the destructor has run, then "destroyed"
\* last         : the most recent call, with its arguments and its outcome
\* inserted, removed : number of insertions / deletions that succeeded
VARIABLES head, length, nodes, created, released, fault, phase, last,
          inserted, removed

vars == <<head, length, nodes, created, released, fault, phase, last,
          inserted, removed>>

----------------------------------------------------------------------------
\* size_t arithmetic
Inc(n) == (n + 1) % SizeMod
Dec(n) == (n - 1) % SizeMod

\* explicit Node(int v) : value(v), next(nullptr)
Node(v) == [value |-> v, next |-> Null]

\* The list object together with the heap it owns.
Cur == [head |-> head, length |-> length, nodes |-> nodes,
        created |-> created, released |-> released, fault |-> fault]

Valid(l, p) == p \in DOMAIN l.nodes

Fault(l) == [l EXCEPT !.fault = TRUE]

\* new Node(v), placed at address a
New(l, a, v) == [l EXCEPT !.nodes = (a :> Node(v)) @@ l.nodes,
                          !.created = @ + 1]

\* delete p  (delete of a null pointer does nothing)
Delete(l, p) ==
  IF p = Null THEN l
  ELSE IF ~Valid(l, p) THEN Fault(l)
  ELSE [l EXCEPT !.nodes = [q \in (DOMAIN l.nodes) \ {p} |-> l.nodes[q]],
                 !.released = @ + 1]

\* What a member function hands back: the list, its result, the diagnostic
\* written to std::cerr and the index get_node was asked for (-1: not called).
Out(l, res, diag, lookup) ==
  [list |-> l, res |-> res, diag |-> diag, lookup |-> lookup]

----------------------------------------------------------------------------
\* The loop of get_node: for (i = 0; i < index; ++i) curr = curr->next
RECURSIVE get_node_loop(_, _, _, _)
get_node_loop(l, curr, i, index) ==
  IF i < index
  THEN IF Valid(l, curr)
       THEN get_node_loop(l, l.nodes[curr].next, i + 1, index)
       ELSE [st |-> "fault", p |-> Null]
  ELSE [st |-> "ok", p |-> curr]

\* Node* get_node(size_t index) const
get_node(l, index) ==
  IF index >= l.length
  THEN [st |-> "throw", p |-> Null]
  ELSE get_node_loop(l, l.head, 0, index)

\* size_t size() const
size(l) == l.length

\* bool empty() const
empty(l) == l.length = 0

\* The traversal of print(): the values in the order they are written.
RECURSIVE print_loop(_, _, _)
print_loop(l, curr, seen) ==
  IF curr = Null \/ ~Valid(l, curr) \/ curr \in seen
  THEN << >>
  ELSE <<l.nodes[curr].value>>
         \o print_loop(l, l.nodes[curr].next, seen \cup {curr})

print(l) == print_loop(l, l.head, {})

\* A variant of push_front that leaves out ++length.
push_front_NoCount(l, value, a) ==
  LET l1 == New(l, a, value)
      l2 == [l1 EXCEPT !.nodes[a].next = l.head]
  IN  [l2 EXCEPT !.head = a]

\* void push_front(int value)
push_front(l, value, a) ==
  LET l1 == New(l, a, value)
      l2 == [l1 EXCEPT !.nodes[a].next = l.head]
  IN  [l2 EXCEPT !.head = a, !.length = Inc(@)]

\* The loop of push_back: while (tail->next) tail = tail->next
\* A tail met a second time lies on a cycle: the loop never ends.
RECURSIVE push_back_loop(_, _, _)
push_back_loop(l, tail, seen) ==
  IF ~Valid(l, tail) \/ tail \in seen
  THEN [st |-> "fault", p |-> Null]
  ELSE IF l.nodes[tail].next # Null
       THEN push_back_loop(l, l.nodes[tail].next, seen \cup {tail})
       ELSE [st |-> "ok", p |-> tail]

\* A variant of push_back that links the new node after head without
\* walking to the tail.
push_back_NoWalk(l, value, a) ==
  LET l1 == New(l, a, value)
  IN  IF l.head = Null
      THEN [l1 EXCEPT !.head = a, !.length = Inc(@)]
      ELSE IF ~Valid(l1, l.head) THEN Fault(l1)
      ELSE [l1 EXCEPT !.nodes[l.head].next = a, !.length = Inc(@)]

\* void push_back(int value)
push_back(l, value, a) ==
  LET l1 == New(l, a, value)
  IN  IF l.head = Null
      THEN [l1 EXCEPT !.head = a, !.length = Inc(@)]
      ELSE LET t == push_back_loop(l1, l.head, {})
           IN  IF t.st = "fault" THEN Fault(l1)
               ELSE [l1 EXCEPT !.nodes[t.p].next = a, !.length = Inc(@)]

\* The part of insert_at after the two special cases (lines 114-118),
\* with the predecessor looked up at index k.
insert_middle(l, k, value, a) ==
  LET g == get_node(l, k)
  IN  IF g.st = "throw" THEN Out(l, "OutOfRange", "none", k)
      ELSE IF g.st = "fault" \/ ~Valid(l, g.p) THEN Out(Fault(l), "ub", "none", k)
      ELSE LET l1 == New(l, a, value)
               l2 == [l1 EXCEPT !.nodes[a].next = l.nodes[g.p].next]
               l3 == [l2 EXCEPT !.nodes[g.p].next = a]
           IN  Out([l3 EXCEPT !.length = Inc(@)], "ok", "none", k)

\* A variant of insert_at that looks up get_node(index) as predecessor.
insert_at_OffByOne(l, index, value, a) ==
  IF index > l.length THEN Out(l, "OutOfRange", "none", -1)
  ELSE IF index = 0 THEN Out(push_front(l, value, a), "ok", "none", -1)
  ELSE IF index = l.length THEN Out(push_back(l, value, a), "ok", "none", -1)
  ELSE insert_middle(l, index, value, a)

\* A variant of insert_at whose range check is index >= length.
insert_at_StrictRange(l, index, value, a) ==
  IF index >= l.length THEN Out(l, "OutOfRange", "none", -1)
  ELSE IF index = 0 THEN Out(push_front(l, value, a), "ok", "none", -1)
  ELSE IF index = l.length THEN Out(push_back(l, value, a), "ok", "none", -1)
  ELSE insert_middle(l, Dec(index), value, a)

\* void insert_at(size_t index, int value)
insert_at(l, index, value, a) ==
  IF index > l.length THEN Out(l, "OutOfRange", "none", -1)
  ELSE IF index = 0 THEN Out(push_front(l, value, a), "ok", "none", -1)
  ELSE IF index = l.length THEN Out(push_back(l, value, a), "ok", "none", -1)
  ELSE insert_middle(l, Dec(index), value, a)

\* Lines 135-140 of delete_at and 160-165 of delete_value: drop the head.
delete_head(l) ==
  IF ~Valid(l, l.head) THEN Out(Fault(l), "ub", "none", -1)
  ELSE LET old == l.head
           l1  == [l EXCEPT !.head = l.nodes[l.head].next]
           l2  == Delete(l1, old)
       IN  Out([l2 EXCEPT !.length = Dec(@)], "true", "none", -1)

\* Lines 142-147 of delete_at, with the predecessor looked up at index k.
delete_after(l, k) ==
  LET g == get_node(l, k)
  IN  IF g.st = "throw" THEN Out(l, "OutOfRange", "none", k)
      ELSE IF g.st = "fault" \/ ~Valid(l, g.p) THEN Out(Fault(l), "ub", "none", k)
      ELSE LET target == l.nodes[g.p].next
           IN  IF ~Valid(l, target) THEN Out(Fault(l), "ub", "none", k)
               ELSE LET l1 == [l EXCEPT !.nodes[g.p].next = l.nodes[target].next]
                        l2 == Delete(l1, target)
                    IN  Out([l2 EXCEPT !.length = Dec(@)], "true", "none", k)

\* A variant of delete_at whose range check is index > length.
delete_at_LooseRange(l, index) ==
  IF empty(l) THEN Out(l, "false", "empty", -1)
  ELSE IF index > l.length THEN Out(l, "false", "range", -1)
  ELSE IF index = 0 THEN delete_head(l)
  ELSE delete_after(l, Dec(index))

\* A variant of delete_at that looks up get_node(index) as predecessor.
delete_at_OffByOne(l, index) ==
  IF empty(l) THEN Out(l, "false", "empty", -1)
  ELSE IF index >= l.length THEN Out(l, "false", "range", -1)
  ELSE IF index = 0 THEN delete_head(l)
  ELSE delete_after(l, index)

\* A variant of delete_at without the range check.
delete_at_NoRange(l, index) ==
  IF empty(l) THEN Out(l, "false", "empty", -1)
  ELSE IF index = 0 THEN delete_head(l)
  ELSE delete_after(l, Dec(index))

\* bool delete_at(size_t index)
delete_at(l, index) ==
  IF empty(l) THEN Out(l, "false", "empty", -1)
  ELSE IF index >= l.length THEN Out(l, "false", "range", -1)
  ELSE IF index = 0 THEN delete_head(l)
  ELSE delete_after(l, Dec(index))

\* The loop of delete_value (lines 169-178).
\* A curr met a second time lies on a cycle: the loop never ends.
RECURSIVE delete_value_loop(_, _, _, _, _)
delete_value_loop(l, prev, curr, value, seen) ==
  IF curr = Null THEN Out(l, "false", "notfound", -1)
  ELSE IF ~Valid(l, curr) \/ curr \in seen THEN Out(Fault(l), "ub", "none", -1)
  ELSE IF l.nodes[curr].value = value
       THEN LET l1 == [l EXCEPT !.nodes[prev].next = l.nodes[curr].next]
                l2 == Delete(l1, curr)
            IN  Out([l2 EXCEPT !.length = Dec(@)], "true", "none", -1)
       ELSE delete_value_loop(l, curr, l.nodes[curr].next, value,
                              seen \cup {curr})

\* A variant of delete_value that never compares the head's value.
delete_value_SkipHead(l, value) ==
  IF empty(l) THEN Out(l, "false", "empty", -1)
  ELSE IF ~Valid(l, l.head) THEN Out(Fault(l), "ub", "none", -1)
  ELSE delete_value_loop(l, l.head, l.nodes[l.head].next, value, {})

\* A variant of delete_value that leaves out --length when it drops the head.
delete_value_NoCount(l, value) ==
  IF empty(l) THEN Out(l, "false", "empty", -1)
  ELSE IF ~Valid(l, l.head) THEN Out(Fault(l), "ub", "none", -1)
  ELSE IF l.nodes[l.head].value = value
       THEN Out(Delete([l EXCEPT !.head = l.nodes[l.head].next], l.head),
                "true", "none", -1)
  ELSE delete_value_loop(l, l.head, l.nodes[l.head].next, value, {})

\* bool delete_value(int value)
delete_value(l, value) ==
  IF empty(l) THEN Out(l, "false", "empty", -1)
  ELSE IF ~Valid(l, l.head) THEN Out(Fault(l), "ub", "none", -1)
  ELSE IF l.nodes[l.head].value = value THEN delete_head(l)
  ELSE delete_value_loop(l, l.head, l.nodes[l.head].next, value, {})

\* The loop of the destructor (lines 54-58).
RECURSIVE dtor_loop(_, _)
dtor_loop(l, curr) ==
  IF curr = Null THEN l
  ELSE IF ~Valid(l, curr) THEN Fault(l)
  ELSE dtor_loop(Delete(l, curr), l.nodes[curr].next)

\* A variant of the destructor that releases the first node only.
dtor_HeadOnly(l) == Delete(l, l.head)

\* ~LinkedList()
dtor(l) == dtor_loop(l, l.head)

----------------------------------------------------------------------------
\* The addresses `new` may return.
Free == Addr \ DOMAIN nodes
AllocChoices == IF Free = {} THEN {Null} ELSE Free

\* An operation that allocates needs a free address and stays under the cap.
CanAllocate(l, a) ==
  l.created > created => (a # Null /\ created < MaxCreated)

NoCall == [op |-> "none", index |-> -1, value |-> 0, res |-> "none",
           diag |-> "none", lookup |-> -1]

Insertions == {"push_front", "push_back", "insert_at"}
Deletions == {"delete_at", "delete_value"}

\* The state after a call; inserted and removed count the calls that succeeded.
Commit(l, call) ==
  /\ head' = l.head
  /\ length' = l.length
  /\ nodes' = l.nodes
  /\ created' = l.created
  /\ released' = l.released
  /\ fault' = l.fault
  /\ last' = call
  /\ inserted' = IF call.op \in Insertions /\ call.res = "ok"
                 THEN inserted + 1 ELSE inserted
  /\ removed' = IF call.op \in Deletions /\ call.res = "true"
                THEN removed + 1 ELSE removed

\* LinkedList() : head(nullptr), length(0)
Init ==
  /\ head = Null
  /\ length = 0
  /\ nodes = << >>
  /\ created = 0
  /\ released = 0
  /\ fault = FALSE
  /\ phase = "alive"
  /\ last = NoCall
  /\ inserted = 0
  /\ removed = 0

Usable == phase = "alive" /\ ~fault

PushFront ==
  /\ Usable
  /\ \E value \in Values, a \in AllocChoices :
       LET l == push_front(Cur, value, a)
       IN  /\ CanAllocate(l, a)
           /\ Commit(l, [op |-> "push_front", index |-> -1, value |-> value,
                         res |-> "ok", diag |-> "none", lookup |-> -1])
  /\ UNCHANGED phase

PushBack ==
  /\ Usable
  /\ \E value \in Values, a \in AllocChoices :
       LET l == push_back(Cur, value, a)
       IN  /\ CanAllocate(l, a)
           /\ Commit(l, [op |-> "push_back", index |-> -1, value |-> value,
                         res |-> IF l.fault THEN "ub" ELSE "ok",
                         diag |-> "none", lookup |-> -1])
  /\ UNCHANGED phase

InsertAt ==
  /\ Usable
  /\ \E index \in Indices, value \in Values, a \in AllocChoices :
       LET o == insert_at(Cur, index, value, a)
       IN  /\ CanAllocate(o.list, a)
           /\ Commit(o.list, [op |-> "insert_at", index |-> index,
                              value |-> value, res |-> o.res,
                              diag |-> o.diag, lookup |-> o.lookup])
  /\ UNCHANGED phase

DeleteAt ==
  /\ Usable
  /\ \E index \in Indices :
       LET o == delete_at(Cur, index)
       IN  Commit(o.list, [op |-> "delete_at", index |-> index, value |-> 0,
                           res |-> o.res, diag |-> o.diag,
                           lookup |-> o.lookup])
  /\ UNCHANGED phase

DeleteValue ==
  /\ Usable
  /\ \E value \in Values :
       LET o == delete_value(Cur, value)
       IN  Commit(o.list, [op |-> "delete_value", index |-> -1,
                           value |-> value, res |-> o.res, diag |-> o.diag,
                           lookup |-> o.lookup])
  /\ UNCHANGED phase

Destroy ==
  /\ Usable
  /\ Commit(dtor(Cur), [op |-> "dtor", index |-> -1, value |-> 0,
                        res |-> "ok", diag |-> "none", lookup |-> -1])
  /\ phase' = "destroyed"

Next ==
  \/ PushFront
  \/ PushBack
  \/ InsertAt
  \/ DeleteAt
  \/ DeleteValue
  \/ Destroy

Spec == Init /\ [][Next]_vars

----------------------------------------------------------------------------
\* Observations of the current list.

\* The addresses met by following next from head, up to the first null,
\* unallocated or repeated one.
RECURSIVE ChainFrom(_, _, _)
ChainFrom(l, p, seen) ==
  IF p = Null \/ ~Valid(l, p) \/ p \in seen
  THEN << >>
  ELSE <<p>> \o ChainFrom(l, l.nodes[p].next, seen \cup {p})

CurChain == ChainFrom(Cur, head, {})
CurSeq == print(Cur)

Range(f) == {f[i] : i \in DOMAIN f}

\* s without its k-th element (1-based)
RemoveAt(s, k) == SubSeq(s, 1, k - 1) \o SubSeq(s, k + 1, Len(s))

\* s with v put before its k-th element (1-based; k = Len(s) + 1 appends)
InsertBefore(s, k, v) == SubSeq(s, 1, k - 1) \o <<v>> \o SubSeq(s, k, Len(s))

\* The chain from head reaches a node whose next is null without leaving
\* the allocated nodes or meeting a node twice.
EndsInNull ==
  IF head = Null THEN CurChain = << >>
  ELSE /\ CurChain # << >>
       /\ nodes[CurChain[Len(CurChain)]].next = Null

\* C1: while the list is alive the chain from head is finite and acyclic and
\* ends in a node whose next is null, length is the number of nodes on it,
\* and length is 0 exactly when head is null.
C1_ChainWellFormed ==
  phase = "alive" =>
    /\ EndsInNull
    /\ length = Len(CurChain)
    /\ (length = 0) <=> (head = Null)

C1_Witness ==
  /\ phase = "alive"
  /\ length >= 2
  /\ last.res \in {"false", "OutOfRange"}
  /\ removed >= 1

\* C2: push_front(v) succeeds and leaves <v> followed by the old sequence;
\* push_back(v) succeeds and leaves the old sequence followed by <v>; both
\* add exactly one to length.
C2_PushOrder ==
  [][ /\ last'.op = "push_front" =>
           /\ last'.res = "ok" /\ ~fault'
           /\ CurSeq' = <<last'.value>> \o CurSeq
           /\ length' = length + 1
      /\ last'.op = "push_back" =>
           /\ last'.res = "ok" /\ ~fault'
           /\ CurSeq' = CurSeq \o <<last'.value>>
           /\ length' = length + 1 ]_vars

C2_Witness ==
  /\ last.op = "push_back"
  /\ Len(CurSeq) = 3
  /\ CurSeq[3] = last.value
  /\ CurSeq[2] # last.value

\* C3: insert_at(i, v) with i <= length does not raise and leaves the first
\* i old elements, then v, then the rest; length grows by one; for
\* i = length the new state is the one push_back(v) produces.
C3_InsertAtPosition ==
  [][ (last'.op = "insert_at" /\ last'.index <= length) =>
        /\ last'.res = "ok" /\ ~fault'
        /\ CurSeq' = InsertBefore(CurSeq, last'.index + 1, last'.value)
        /\ CurSeq'[last'.index + 1] = last'.value
        /\ length' = length + 1
        /\ last'.index = length =>
             \E a \in Free : Cur' = push_back(Cur, last'.value, a) ]_vars

C3_Witness ==
  /\ last.op = "insert_at"
  /\ last.res = "ok"
  /\ last.index = 1
  /\ length = 3
  /\ CurSeq[1] # CurSeq[2]

\* C4: insert_at raises OutOfRange exactly when index > length; when it
\* raises nothing changes (no node is created); a valid insert_at right
\* after a raised one succeeds.
C4_InsertAtRaises ==
  [][ last'.op = "insert_at" =>
        /\ (last'.res = "OutOfRange") <=> (last'.index > length)
        /\ last'.res = "OutOfRange" => (Cur' = Cur /\ CurSeq' = CurSeq)
        /\ (last.op = "insert_at" /\ last.res = "OutOfRange"
              /\ last'.index <= length) =>
             (last'.res = "ok" /\ length' = length + 1) ]_vars

C4_Witness ==
  /\ last.op = "insert_at"
  /\ last.res = "OutOfRange"
  /\ last.index = 1
  /\ length = 0
  /\ head = Null

\* C5: delete_at returns false exactly when the list is empty or
\* index >= length; then nothing changes, no node is released and a
\* diagnostic is written; it does not raise.
C5_DeleteAtFails ==
  [][ last'.op = "delete_at" =>
        /\ last'.res \in {"true", "false"}
        /\ (last'.res = "false") <=> (length = 0 \/ last'.index >= length)
        /\ last'.res = "false" =>
             /\ Cur' = Cur
             /\ CurSeq' = CurSeq
             /\ last'.diag = IF length = 0 THEN "empty" ELSE "range" ]_vars

C5_Witness ==
  /\ last.op = "delete_at"
  /\ last.res = "false"
  /\ last.diag = "range"
  /\ length >= 1
  /\ last.index >= length

\* C6: delete_at(i) with i < length returns true, removes exactly the
\* element at position i, keeps the others in order, takes one from length
\* and releases the node that was at position i and no other.
C6_DeleteAtRemoves ==
  [][ (last'.op = "delete_at" /\ length # 0 /\ last'.index < length) =>
        /\ last'.res = "true" /\ ~fault'
        /\ CurSeq' = RemoveAt(CurSeq, last'.index + 1)
        /\ length' = length - 1
        /\ released' = released + 1
        /\ DOMAIN nodes' = (DOMAIN nodes) \ {CurChain[last'.index + 1]}
        /\ CurChain' = RemoveAt(CurChain, last'.index + 1) ]_vars

C6_Witness ==
  /\ last.op = "delete_at"
  /\ last.res = "true"
  /\ last.index = 1
  /\ length = 2
  /\ released >= 1

\* The least position of v in s (0 when v does not occur).
FirstIndex(s, v) ==
  IF v \in Range(s)
  THEN CHOOSE k \in 1..Len(s) : s[k] = v /\ \A j \in 1..(k - 1) : s[j] # v
  ELSE 0

\* C7: delete_value(v) returns true exactly when v occurs; then only the
\* first occurrence goes and length drops by one; otherwise it returns false
\* without raising and nothing changes.
C7_DeleteValueFirst ==
  [][ last'.op = "delete_value" =>
        LET k == FirstIndex(CurSeq, last'.value)
        IN  /\ last'.res \in {"true", "false"}
            /\ (last'.res = "true") <=> (k # 0)
            /\ k # 0 => /\ CurSeq' = RemoveAt(CurSeq, k)
                        /\ length' = length - 1
            /\ k = 0 => /\ CurSeq' = CurSeq
                        /\ length' = length
                        /\ Cur' = Cur ]_vars

C7_Witness ==
  /\ last.op = "delete_value"
  /\ last.res = "true"
  /\ Len(CurSeq) = 2
  /\ CurSeq[1] # last.value
  /\ CurSeq[2] = last.value

\* C8: size() is the number of insertions that succeeded minus the number
\* of deletions that succeeded, it never wraps below zero, and empty() holds
\* exactly when the two numbers are equal.
C8_SizeIsBalance ==
  phase = "alive" =>
    /\ removed <= inserted
    /\ size(Cur) = inserted - removed
    /\ empty(Cur) <=> (inserted = removed)

C8_Witness ==
  /\ phase = "alive"
  /\ inserted >= 3
  /\ removed >= 2
  /\ last.res \in {"false", "OutOfRange"}
  /\ size(Cur) = 1

\* C9: no release is of a node that is not allocated; while the list is
\* alive every allocated node is on the chain and the nodes created and not
\* yet released are exactly those; the destructor releases exactly the
\* nodes of the chain and leaves none allocated.
C9_ReleasedOnce ==
  /\ [](/\ ~fault
        /\ phase = "alive" =>
             /\ DOMAIN nodes = Range(CurChain)
             /\ created - released = Cardinality(DOMAIN nodes)
        /\ phase = "destroyed" =>
             /\ nodes = << >>
             /\ released = created)
  /\ [][ (phase = "alive" /\ phase' = "destroyed") =>
           /\ released' = released + Len(CurChain)
           /\ created' = created
           /\ nodes' = << >> ]_vars

C9_Witness ==
  /\ phase = "destroyed"
  /\ length >= 2
  /\ created > length
  /\ released = created
  /\ nodes = << >>

\* C10: delete_at and delete_value never raise; get_node is called only by
\* delete_at and insert_at and only with an index below length; nothing
\* follows a null next pointer or touches a released node.
C10_DeletesNeverRaise ==
  [][ /\ last'.op \in Deletions => last'.res \in {"true", "false"}
      /\ last'.lookup # -1 =>
           /\ last'.op \in {"delete_at", "insert_at"}
           /\ last'.lookup < length
      /\ ~fault' ]_vars

C10_Witness ==
  /\ last.op = "delete_at"
  /\ last.res = "true"
  /\ last.lookup >= 1
  /\ ~fault

====
